---- MODULE Spec2Model ----
(***************************************************************************)
(* Session / request-authorization subsystem of the product-search web     *)
(* client: the axios instance `api` with its request and response          *)
(* interceptors (utils/api.ts), the credential helpers of utils/storage    *)
(* (saveAuthData, clearAuthData), the auth slice of the Redux store, the   *)
(* login/signup form, the header logout and the periodic refresh timer of  *)
(* the useAuth hook; and the wishlist slice with the handlers that keep    *)
(* it in step with the backend (ProductCard, the Wishlist page).           *)
(*                                                                         *)
(* JavaScript runs handlers to completion on one event loop; a handler is  *)
(* suspended only at an awaited network call.  One action of the model is  *)
(* one such uninterrupted run: issuing a request (request interceptor and  *)
(* dispatch), the arrival of a response (response interceptor, and the     *)
(* caller's continuation when the promise settles), the arrival of the     *)
(* refresh exchange's response, a timer tick, a click on logout.           *)
(*                                                                         *)
(* Spec is the running page.  AuthSpec and WishlistSpec exercise the       *)
(* reducers of one slice and the storage helpers on their own, called in   *)
(* any order with any payload.                                             *)
(***************************************************************************)
EXTENDS Integers, Sequences, FiniteSets, TLC

\* ------------------------------------------------------------- bounds
MaxReq == 1      \* requests that can be in flight at the same time
MaxTok == 2      \* distinct access tokens the backend hands out
MaxUser == 1     \* distinct user profiles the backend returns on login
MaxProd == 2     \* distinct product ids on the pages
MaxList == 2     \* length of the longest wishlist the backend returns
MaxConc == 2     \* requests in flight at the same time in ConcSpec

\* ------------------------------------------------------- JS values
Null == "<null>"             \* JavaScript null / a key absent from localStorage
Undefined == "<undefined>"   \* JavaScript undefined (a field missing from a body)

\* `if (x)` on a value that is a string, null or undefined
Truthy(v) == v # Null /\ v # Undefined /\ v # ""

\* String(v): what localStorage.setItem stores for a non-string value
ToStr(v) == IF v = Undefined THEN "undefined" ELSE IF v = Null THEN "null" ELSE v

\* ------------------------------------------------------ storage keys
TOKEN_KEY == "token"
USER_KEY == "auth_user"
REFRESH_KEY == "refresh_token"
Keys == {TOKEN_KEY, USER_KEY, REFRESH_KEY}

\* ------------------------------------------------- backend's values
Reqs == 1..MaxReq
Tokens == {"a" \o ToString(i) : i \in 1..MaxTok}
Users == {"u" \o ToString(i) \o "@x.io" : i \in 1..MaxUser}
RefreshTokens == {"r1"}

\* Product: its id and, for the rest of its fields, its title
ProductIds == {"p" \o ToString(i) : i \in 1..MaxProd}
Titles == {"t" \o ToString(i) : i \in 1..MaxProd}
Product(id, title) == [id |-> id, title |-> title]
NoProduct == Product("", "")

\* the products the pages show: one per id
Products == {Product("p" \o ToString(i), "t" \o ToString(i)) : i \in 1..MaxProd}

\* the products a ProductCard can be given: those, and one whose id is empty
Cards == Products \cup {Product("", "t1")}

\* response.data.wishlist of GET /wishlist-protected: any list of products
Wishlists == UNION {[1..n -> Products] : n \in 0..MaxList}

\* HTTP outcome of a request: 200, 401, another error status, 0 = no response
Statuses == {200, 401, 500, 0}

\* the body's `error` field of a failure response, when the backend sends one
BodyErrors == {Undefined, "denied"}

Response(s, t, u, e) ==
    [status |-> s, access_token |-> t, user |-> u, error |-> e, wishlist |-> <<>>]

\* what the backend can answer to a request of each kind: on success the body
\* of the endpoint (AuthResponse, SignupResponse, { access_token }, the
\* wishlist), on failure a status and possibly an error field
Failures == {Response(s, Undefined, Undefined, e) : s \in Statuses \ {200}, e \in BodyErrors}

Responses ==
    [kind \in {"login", "signup", "getWishlist", "refresh", "addToWishlist",
               "removeFromWishlist", "analyzeImage", "searchProducts"} |->
        (CASE kind = "login" -> {Response(200, t, u, Undefined) : t \in Tokens, u \in Users}
           [] kind = "refresh" -> {Response(200, t, Undefined, Undefined) : t \in Tokens}
           [] kind = "getWishlist" ->
                 {[Response(200, Undefined, Undefined, Undefined) EXCEPT !.wishlist = w] :
                     w \in Wishlists}
           [] OTHER -> {Response(200, Undefined, Undefined, Undefined)})
        \cup Failures]

AllResponses == UNION {Responses[k] : k \in DOMAIN Responses}

\* `Bearer ${token}`
Bearer(t) == "Bearer " \o ToStr(t)

\* JSON.stringify(user); JSON.stringify(undefined) is undefined
JSONstringify(u) == IF u = Undefined THEN Undefined ELSE "{\"email\":\"" \o u \o "\"}"

\* JSON.parse(s): the value, or ok = FALSE when it throws a SyntaxError
JSONparse(s) ==
    IF \E u \in Users : JSONstringify(u) = s
    THEN [ok |-> TRUE, value |-> CHOOSE u \in Users : JSONstringify(u) = s]
    ELSE IF s = "null" THEN [ok |-> TRUE, value |-> Null]
    ELSE [ok |-> FALSE, value |-> Undefined]

VARIABLES
    localStorage,   \* the browser's localStorage: key -> string, Null when absent
    auth,           \* Redux state.auth: user, token, isAuthenticated
    defaults,       \* api.defaults.headers.common['Authorization']
    req,            \* the requests in flight, one record per slot
    wishlist,       \* Redux state.wishlist.items
    ev              \* what the last step put on the wire and handed to the caller

vars == <<localStorage, auth, defaults, req, wishlist, ev>>

\* ------------------------------------------------------ utils/storage
getItem(ls, k) == ls[k]
setItem(ls, k, v) == [ls EXCEPT ![k] = ToStr(v)]
removeItem(ls, k) == [ls EXCEPT ![k] = Null]

\* mutant: the refresh token of the login response is stored as well
saveAuthData_StoresRefresh(ls, token, user) ==
    [ls EXCEPT ![TOKEN_KEY] = ToStr(token), ![USER_KEY] = ToStr(JSONstringify(user)),
               ![REFRESH_KEY] = "r1"]

\* mutant: the user is stored without JSON.stringify
saveAuthData_NoStringify(ls, token, user) ==
    setItem(setItem(ls, TOKEN_KEY, token), USER_KEY, "[object Object]")

saveAuthData(ls, token, user) ==
    setItem(setItem(ls, TOKEN_KEY, token), USER_KEY, JSONstringify(user))

clearAuthData(ls) == removeItem(removeItem(ls, TOKEN_KEY), USER_KEY)

\* getStoredAuth(): the record returned (found = FALSE for null) and the store
\* it leaves behind
NoStoredAuth == [found |-> FALSE, token |-> Null, user |-> Null]

\* mutant: the catch block returns null without clearAuthData()
getStoredAuth_NoClear(ls) ==
    LET token == getItem(ls, TOKEN_KEY)
        userStr == getItem(ls, USER_KEY)
    IN
    IF Truthy(token) /\ Truthy(userStr) /\ JSONparse(userStr).ok
    THEN [ret |-> [found |-> TRUE, token |-> token, user |-> JSONparse(userStr).value],
          ls |-> ls]
    ELSE [ret |-> NoStoredAuth, ls |-> ls]

getStoredAuth(ls) ==
    LET token == getItem(ls, TOKEN_KEY)
        userStr == getItem(ls, USER_KEY)
    IN
    IF ~Truthy(token) \/ ~Truthy(userStr) THEN [ret |-> NoStoredAuth, ls |-> ls]
    ELSE IF JSONparse(userStr).ok
         THEN [ret |-> [found |-> TRUE, token |-> token, user |-> JSONparse(userStr).value],
               ls |-> ls]
         ELSE [ret |-> NoStoredAuth, ls |-> clearAuthData(ls)]

\* ---------------------------------------------------- store/authSlice
initialState == [user |-> Null, token |-> Null, isAuthenticated |-> FALSE]

\* mutant: every setCredentials marks the session authenticated
setCredentials_Authenticated(user, token) ==
    [user |-> user, token |-> token, isAuthenticated |-> TRUE]

setCredentials(user, token) ==
    [user |-> user, token |-> token, isAuthenticated |-> Truthy(token)]

\* mutant: the reducer resets state.auth without calling clearAuthData()
logout_NoClear(ls) == [ls |-> ls, auth |-> initialState]

\* dispatch(logout()): the reducer calls clearAuthData() and resets state.auth
logout(ls) == [ls |-> clearAuthData(ls), auth |-> initialState]

\* mutant: the forced logout resets state.auth and leaves the stored credentials
ForceLogout_StateOnly(ls) == [ls |-> ls, auth |-> initialState]

\* store.dispatch(logout()); clearAuthData(): the forced logout of the response
\* interceptor and of the useAuth hook
ForceLogout(ls) == [ls |-> clearAuthData(logout(ls).ls), auth |-> logout(ls).auth]

\* ------------------------------------------------- store/wishlistSlice
setWishlist(items, payload) == payload

InWishlist(items, id) == \E i \in DOMAIN items : items[i].id = id

\* mutant: an item counts as present only when all its fields are equal
addToWishlistAction_ByValue(items, product) ==
    IF \E i \in DOMAIN items : items[i] = product THEN items ELSE Append(items, product)

addToWishlistAction(items, product) ==
    IF InWishlist(items, product.id) THEN items ELSE Append(items, product)

RECURSIVE Filter(_, _)
\* items.filter(item => item.id !== id)
Filter(items, id) ==
    IF items = <<>> THEN <<>>
    ELSE IF Head(items).id # id THEN <<Head(items)>> \o Filter(Tail(items), id)
    ELSE Filter(Tail(items), id)

removeFromWishlistAction(items, id) == Filter(items, id)

clearWishlist(items) == <<>>

\* ------------------------------------------------------ utils/api.ts
Path(kind) ==
    CASE kind = "login" -> "/login"
      [] kind = "signup" -> "/register"
      [] kind = "getWishlist" -> "/wishlist-protected"
      [] kind = "refresh" -> "/refresh"
      [] kind = "addToWishlist" -> "/wishlist-protected"
      [] kind = "removeFromWishlist" -> "/wishlist-protected"
      [] kind = "analyzeImage" -> "/analyze-image"
      [] kind = "searchProducts" -> "/search"

\* mutant: the interceptor attaches the token only when the request has no
\* Authorization header yet
RequestInterceptor_OwnHeaderWins(ls, h) ==
    IF h # Null THEN h
    ELSE IF Truthy(getItem(ls, TOKEN_KEY)) THEN "Bearer " \o getItem(ls, TOKEN_KEY)
    ELSE h

\* request interceptor: h is the Authorization header of the merged config
RequestInterceptor(ls, h) ==
    IF Truthy(getItem(ls, TOKEN_KEY)) THEN Bearer(getItem(ls, TOKEN_KEY)) ELSE h

\* a request through `api`: the instance's default header d is merged under
\* the request's own header h, then the request interceptor runs
ApiHeader(ls, d, h) == RequestInterceptor(ls, IF h # Null THEN h ELSE d)

\* mutant: the _retry mark is not consulted
Decision_NoRetryCheck(s, retry, refreshToken) ==
    IF s = 200 THEN "pass"
    ELSE IF s = 401
         THEN IF Truthy(refreshToken) THEN "refresh" ELSE "logout"
         ELSE "reject"

\* mutant: a 401 without a refresh token is passed on without the logout
Decision_NoLogout(s, retry, refreshToken) ==
    IF s = 200 THEN "pass"
    ELSE IF s = 401 /\ ~retry /\ Truthy(refreshToken) THEN "refresh"
    ELSE "reject"

\* mutant: a 401 starts no refresh while another request's refresh is under way
Decision_OneRefreshAtATime(s, retry, refreshToken) ==
    IF s = 200 THEN "pass"
    ELSE IF s = 401 /\ ~retry
         THEN IF \E o \in DOMAIN req : req[o].pc = "refreshing" THEN "reject"
              ELSE IF Truthy(refreshToken) THEN "refresh" ELSE "logout"
         ELSE "reject"

\* mutant: any failure of a request not yet retried is handled like a 401
Decision_AnyFailure(s, retry, refreshToken) ==
    IF s = 200 THEN "pass"
    ELSE IF ~retry
         THEN IF Truthy(refreshToken) THEN "refresh" ELSE "logout"
         ELSE "reject"

\* response interceptor: what it does with an outcome of status s
Decision(s, retry, refreshToken) ==
    IF s = 200 THEN "pass"
    ELSE IF s = 401 /\ ~retry
         THEN IF Truthy(refreshToken) THEN "refresh" ELSE "logout"
         ELSE "reject"

\* mutant: the original request is sent again before the new token is stored
\* and before its header is set
Refreshed_ResendFirst(ls, t) ==
    [ls |-> [ls EXCEPT ![TOKEN_KEY] = t], defaults |-> "Bearer " \o t,
     header |-> IF Truthy(ls[TOKEN_KEY]) THEN "Bearer " \o ls[TOKEN_KEY] ELSE Null]

\* mutant: the new token is not written to localStorage
Refreshed_NoStore(ls, t) ==
    [ls |-> ls, defaults |-> "Bearer " \o t,
     header |-> IF Truthy(ls[TOKEN_KEY]) THEN "Bearer " \o ls[TOKEN_KEY]
                ELSE "Bearer " \o t]

\* response interceptor after a successful refresh exchange that returned t:
\* the token is stored, the default and the request's header are set, and the
\* original request goes through `api` again
Refreshed(ls, t) ==
    LET ls1 == setItem(ls, TOKEN_KEY, t)
        d1 == Bearer(t)
    IN [ls |-> ls1, defaults |-> d1, header |-> ApiHeader(ls1, d1, Bearer(t))]

\* ------------------------------------------------ records of the model
IdleReq ==
    [pc |-> "idle", kind |-> "none", retry |-> FALSE, user |-> Null,
     nRefresh |-> 0, nSend |-> 0, product |-> NoProduct]

NoResp == Response(-1, Undefined, Undefined, Undefined)

NoMsg == [via |-> "none", path |-> "", auth |-> Null, body |-> "", token |-> Null,
          refresh |-> Null]

\* a message on the wire, with the credentials stored when it left
Msg(via, path, h, body, ls) ==
    [via |-> via, path |-> path, auth |-> h, body |-> body,
     token |-> getItem(ls, TOKEN_KEY), refresh |-> getItem(ls, REFRESH_KEY)]

Body(kind) == IF kind = "refresh" THEN "{}" ELSE "payload"

\* what the caller of the domain operation gets: result is "resolve" or "reject",
\* status the HTTP status of the response or error behind it, reason the error
\* object rejected ("response": the error of the request itself, "refreshError":
\* the error of the refresh exchange), message the message of the Error thrown
NoOut == [result |-> "none", status |-> -1, reason |-> "none", message |-> ""]
Out(result, status, reason, message) ==
    [result |-> result, status |-> status, reason |-> reason, message |-> message]

\* AxiosError.message of a failed exchange
AxiosMessage(s) ==
    IF s = 0 THEN "Network Error" ELSE "Request failed with status code " \o ToString(s)

Fallback(kind) ==
    CASE kind = "login" -> "Login failed."
      [] kind = "signup" -> "Signup failed."
      [] kind = "getWishlist" -> "Failed to fetch wishlist."
      [] kind = "refresh" -> "Token refresh failed."
      [] kind = "addToWishlist" -> "Failed to add to wishlist."
      [] kind = "removeFromWishlist" -> "Failed to remove from wishlist."
      [] kind = "analyzeImage" -> "Image analysis failed."
      [] kind = "searchProducts" -> "Product search failed."

\* mutant: the operation lets the AxiosError through as it is
DomainMessage_Raw(kind, bodyErr, s) == AxiosMessage(s)

\* the catch block of a domain operation: the message of the Error it throws
DomainMessage(kind, bodyErr, s) ==
    IF Truthy(bodyErr) THEN bodyErr
    ELSE IF Truthy(AxiosMessage(s)) THEN AxiosMessage(s)
    ELSE Fallback(kind)

\* return Promise.reject(error): the error of the request itself reaches the
\* domain operation
RejectError(kind, resp) ==
    Out("reject", resp.status, "response", DomainMessage(kind, resp.error, resp.status))

\* mutant: the original 401 error is rejected instead of the refresh error
RejectRefreshError_Original(kind, rresp) ==
    Out("reject", 401, "response", "Request failed with status code 401")

\* return Promise.reject(refreshError): rresp is the refresh exchange's failure
RejectRefreshError(kind, rresp) ==
    Out("reject", rresp.status, "refreshError",
        DomainMessage(kind, rresp.error, rresp.status))

\* the caller's continuation when its domain operation resolves with body
\* resp: AuthForm.handleSubmit, Wishlist.fetchWishlist, the interval of useAuth
OnResolve(q, ls, au, resp) ==
    CASE q.kind = "login" ->
            [ls |-> saveAuthData(ls, resp.access_token, resp.user),
             auth |-> setCredentials(resp.user, resp.access_token)]
      [] q.kind = "signup" ->
            [ls |-> saveAuthData(ls, resp.access_token, resp.user),
             auth |-> setCredentials(resp.user, resp.access_token)]
      [] q.kind \in {"getWishlist", "addToWishlist", "removeFromWishlist",
                     "analyzeImage", "searchProducts"} ->
            [ls |-> ls, auth |-> au]
      [] q.kind = "refresh" ->
            [ls |-> setItem(ls, TOKEN_KEY, resp.access_token),
             auth |-> setCredentials(q.user, resp.access_token)]

\* mutant: the hook's catch block leaves the session alone
OnReject_NoLogout(q, ls, au) == [ls |-> ls, auth |-> au, lo |-> {}]

\* the caller's continuation when its domain operation throws
OnReject(q, ls, au) ==
    IF q.kind = "refresh"
    THEN [ls |-> ForceLogout(ls).ls, auth |-> ForceLogout(ls).auth, lo |-> {"timer"}]
    ELSE [ls |-> ls, auth |-> au, lo |-> {}]

\* the wishlist continuation of the caller when its domain operation
\* resolves: Wishlist.fetchWishlist, ProductCard.handleWishlistAction,
\* Wishlist.handleRemoveItem
OnResolveWishlist(q, items, resp) ==
    CASE q.kind = "getWishlist" -> setWishlist(items, resp.wishlist)
      [] q.kind = "addToWishlist" -> addToWishlistAction(items, q.product)
      [] q.kind = "removeFromWishlist" -> removeFromWishlistAction(items, q.product.id)
      [] OTHER -> items

\* mutant: the catch block dispatches the change as the try block does
OnRejectWishlist_Dispatch(q, items) ==
    CASE q.kind = "addToWishlist" -> addToWishlistAction(items, q.product)
      [] q.kind = "removeFromWishlist" -> removeFromWishlistAction(items, q.product.id)
      [] OTHER -> items

\* the catch block of the wishlist handlers: an error message, no dispatch
OnRejectWishlist(q, items) == items

\* mirror, auth0 and ls0 are state.wishlist.items, state.auth and localStorage
\* as the step found them, product the product of the request it handled
Ev(op, r, kind, resp, retried, msg, out, lo) ==
    [op |-> op, r |-> r, kind |-> kind, resp |-> resp, retried |-> retried,
     msg |-> msg, out |-> out, logout |-> lo, mirror |-> wishlist,
     auth0 |-> auth, ls0 |-> localStorage,
     product |-> IF r \in DOMAIN req THEN req[r].product ELSE NoProduct]

\* A fresh page load.  localStorage belongs to the browser, not to the page:
\* the refresh_token key, which the page reads, is there or not.
Init ==
    /\ \E rt \in RefreshTokens \cup {Null} :
          localStorage = [k \in Keys |-> IF k = REFRESH_KEY THEN rt ELSE Null]
    /\ auth = initialState
    /\ defaults = Null
    /\ req = [r \in Reqs |-> IdleReq]
    /\ wishlist = <<>>
    /\ ev = Ev("init", 0, "none", NoResp, FALSE, NoMsg, NoOut, {})

\* a new request takes the first free slot (the slots are interchangeable)
Free(r) == req[r].pc = "idle" /\ \A o \in DOMAIN req : o < r => req[o].pc # "idle"

\* a domain operation called by a page: login, signup, getWishlist,
\* analyzeImage, searchProducts
Issue(r, kind) ==
    /\ Free(r)
    /\ kind = "getWishlist" => auth.isAuthenticated
    /\ LET h == ApiHeader(localStorage, defaults, Null) IN
          /\ req' = [req EXCEPT ![r] = [IdleReq EXCEPT !.pc = "sent", !.kind = kind,
                                                       !.nSend = 1]]
          /\ ev' = Ev("issue", r, kind, NoResp, FALSE,
                      Msg("api", Path(kind), h, Body(kind), localStorage), NoOut, {})
    /\ UNCHANGED <<localStorage, auth, defaults, wishlist>>

\* the interval callback of useAuth: refreshAccessToken() through `api`
Tick(r) ==
    /\ Free(r)
    /\ auth.isAuthenticated /\ Truthy(auth.token)
    /\ LET rt == getItem(localStorage, REFRESH_KEY) IN
       IF ~Truthy(rt)
       THEN \* throw new Error('No refresh token available.'), caught by the hook
            /\ localStorage' = ForceLogout(localStorage).ls
            /\ auth' = ForceLogout(localStorage).auth
            /\ ev' = Ev("tick", r, "refresh", NoResp, FALSE, NoMsg,
                        Out("reject", -1, "noRefreshToken", "No refresh token available."),
                        {"timer"})
            /\ UNCHANGED <<defaults, req, wishlist>>
       ELSE LET h == ApiHeader(localStorage, defaults, Bearer(rt)) IN
            /\ req' = [req EXCEPT ![r] = [IdleReq EXCEPT !.pc = "sent", !.kind = "refresh",
                                              !.user = auth.user, !.nSend = 1]]
            /\ ev' = Ev("tick", r, "refresh", NoResp, FALSE,
                        Msg("api", Path("refresh"), h, Body("refresh"), localStorage),
                        NoOut, {})
            /\ UNCHANGED <<localStorage, auth, defaults, wishlist>>

\* the response to request r arrives
Respond(r, resp) ==
    /\ req[r].pc = "sent"
    /\ resp \in Responses[req[r].kind]
    /\ LET q == req[r]
           rt == getItem(localStorage, REFRESH_KEY)
           d == Decision(resp.status, q.retry, rt)
       IN
       CASE d = "pass" ->
               LET c == OnResolve(q, localStorage, auth, resp) IN
               /\ localStorage' = c.ls
               /\ auth' = c.auth
               /\ wishlist' = OnResolveWishlist(q, wishlist, resp)
               /\ req' = [req EXCEPT ![r] = IdleReq]
               /\ ev' = Ev("respond", r, q.kind, resp, q.retry, NoMsg,
                           Out("resolve", resp.status, "response", ""), {})
               /\ UNCHANGED defaults
         [] d = "refresh" ->
               /\ req' = [req EXCEPT ![r].pc = "refreshing", ![r].retry = TRUE,
                                     ![r].nRefresh = @ + 1]
               /\ ev' = Ev("respond", r, q.kind, resp, q.retry,
                           Msg("axios", "/refresh", Bearer(rt), "{}", localStorage),
                           NoOut, {})
               /\ UNCHANGED <<localStorage, auth, defaults, wishlist>>
         [] d = "logout" ->
               LET f == ForceLogout(localStorage)
                   c == OnReject(q, f.ls, f.auth)
               IN
               /\ localStorage' = c.ls
               /\ auth' = c.auth
               /\ req' = [req EXCEPT ![r] = IdleReq]
               /\ ev' = Ev("respond", r, q.kind, resp, q.retry, NoMsg,
                           RejectError(q.kind, resp), {"interceptor"} \cup c.lo)
               /\ wishlist' = OnRejectWishlist(q, wishlist)
               /\ UNCHANGED defaults
         [] d = "reject" ->
               LET c == OnReject(q, localStorage, auth) IN
               /\ localStorage' = c.ls
               /\ auth' = c.auth
               /\ req' = [req EXCEPT ![r] = IdleReq]
               /\ ev' = Ev("respond", r, q.kind, resp, q.retry, NoMsg,
                           RejectError(q.kind, resp), c.lo)
               /\ wishlist' = OnRejectWishlist(q, wishlist)
               /\ UNCHANGED defaults

\* the response of the refresh exchange the interceptor started for r arrives
RefreshRespond(r, resp) ==
    /\ req[r].pc = "refreshing"
    /\ resp \in Responses["refresh"]
    /\ LET q == req[r] IN
       IF resp.status = 200
       THEN LET n == Refreshed(localStorage, resp.access_token) IN
            /\ localStorage' = n.ls
            /\ defaults' = n.defaults
            /\ req' = [req EXCEPT ![r].pc = "sent", ![r].nSend = @ + 1]
            /\ ev' = Ev("refreshed", r, q.kind, resp, q.retry,
                        Msg("api", Path(q.kind), n.header, Body(q.kind), n.ls),
                        NoOut, {})
            /\ UNCHANGED <<auth, wishlist>>
       ELSE LET f == ForceLogout(localStorage)
                c == OnReject(q, f.ls, f.auth)
            IN
            /\ localStorage' = c.ls
            /\ auth' = c.auth
            /\ req' = [req EXCEPT ![r] = IdleReq]
            /\ ev' = Ev("refreshFailed", r, q.kind, resp, q.retry, NoMsg,
                        RejectRefreshError(q.kind, resp), {"interceptor"} \cup c.lo)
            /\ wishlist' = OnRejectWishlist(q, wishlist)
            /\ UNCHANGED defaults

\* mutant: removeFromWishlist does not look at its argument
InvalidProductId_Never(productId) == FALSE

\* removeFromWishlist: if (!productId) throw new Error('Invalid productId.')
InvalidProductId(productId) == ~Truthy(productId)

\* a wishlist handler calls the domain operation kind for product: the
\* request leaves, or removeFromWishlist throws before sending anything and
\* the handler's catch block runs
CallWishlistApi(op, r, kind, product) ==
    IF kind = "removeFromWishlist" /\ InvalidProductId(product.id)
    THEN /\ ev' = [Ev(op, r, kind, NoResp, FALSE, NoMsg,
                      Out("reject", -1, "validation", "Invalid productId."), {})
                      EXCEPT !.product = product]
         /\ wishlist' = OnRejectWishlist([IdleReq EXCEPT !.kind = kind,
                                                         !.product = product], wishlist)
         /\ UNCHANGED <<localStorage, auth, defaults, req>>
    ELSE /\ req' = [req EXCEPT ![r] = [IdleReq EXCEPT !.pc = "sent", !.kind = kind,
                                                      !.nSend = 1, !.product = product]]
         /\ ev' = [Ev(op, r, kind, NoResp, FALSE,
                      Msg("api", Path(kind), ApiHeader(localStorage, defaults, Null),
                          Body(kind), localStorage), NoOut, {})
                      EXCEPT !.product = product]
         /\ UNCHANGED <<localStorage, auth, defaults, wishlist>>

\* ProductCard on a results page: requireAuth, then remove when the product
\* is in the mirror and add when it is not
handleWishlistAction(r, product) ==
    /\ Free(r)
    /\ auth.isAuthenticated
    /\ CallWishlistApi("handleWishlistAction", r,
                       IF InWishlist(wishlist, product.id) THEN "removeFromWishlist"
                       ELSE "addToWishlist",
                       product)

\* the card of item i on the Wishlist page: onRemove = handleRemoveItem
handleRemoveItem(r, i) ==
    /\ Free(r)
    /\ auth.isAuthenticated
    /\ i \in DOMAIN wishlist
    /\ CallWishlistApi("handleRemoveItem", r, "removeFromWishlist", wishlist[i])

\* the effect of the Wishlist page while nobody is logged in
fetchWishlistLoggedOut ==
    /\ ~auth.isAuthenticated
    /\ wishlist' = setWishlist(wishlist, <<>>)
    /\ ev' = Ev("fetchWishlist", 0, "none", NoResp, FALSE, NoMsg, NoOut, {})
    /\ UNCHANGED <<localStorage, auth, defaults, req>>

\* the logout button of the header
handleLogout ==
    /\ auth.isAuthenticated
    /\ localStorage' = logout(localStorage).ls
    /\ auth' = logout(localStorage).auth
    /\ wishlist' = clearWishlist(wishlist)
    /\ ev' = Ev("handleLogout", 0, "none", NoResp, FALSE, NoMsg, NoOut, {"header"})
    /\ UNCHANGED <<defaults, req>>

Next ==
    \/ \E r \in Reqs, kind \in {"login", "signup", "getWishlist", "analyzeImage",
                                 "searchProducts"} : Issue(r, kind)
    \/ \E r \in Reqs : Tick(r)
    \/ \E r \in Reqs, product \in Cards : handleWishlistAction(r, product)
    \/ \E r \in Reqs, i \in 1..MaxList : handleRemoveItem(r, i)
    \/ fetchWishlistLoggedOut
    \/ \E r \in Reqs, resp \in AllResponses : Respond(r, resp)
    \/ \E r \in Reqs, resp \in AllResponses : RefreshRespond(r, resp)
    \/ handleLogout

Spec == Init /\ [][Next]_vars

\* ------------------------------------- a browser that starts empty
\* The page in a browser whose localStorage holds nothing when it loads.
\* RefreshRespond is left out of the steps: it needs a request waiting for a
\* refresh exchange, and C28_RefreshTokenNeverStored shows there is none.
EmptyInit == Init /\ localStorage = [k \in Keys |-> Null]

EmptyNext ==
    \/ \E r \in Reqs, kind \in {"login", "signup", "getWishlist", "analyzeImage",
                                 "searchProducts"} : Issue(r, kind)
    \/ \E r \in Reqs : Tick(r)
    \/ \E r \in Reqs, product \in Cards : handleWishlistAction(r, product)
    \/ \E r \in Reqs, i \in 1..MaxList : handleRemoveItem(r, i)
    \/ fetchWishlistLoggedOut
    \/ \E r \in Reqs, resp \in AllResponses : Respond(r, resp)
    \/ handleLogout

EmptySpec == EmptyInit /\ [][EmptyNext]_vars

\* ------------------------------------------ requests side by side
\* A logged-in session with a refresh token in localStorage, and MaxConc
\* requests of the results pages in flight at the same time, their responses
\* and the responses of their refresh exchanges arriving in any order.
ConcInit ==
    /\ \E t \in Tokens, u \in Users :
          /\ localStorage =
                saveAuthData([k \in Keys |-> IF k = REFRESH_KEY THEN "r1" ELSE Null], t, u)
          /\ auth = setCredentials(u, t)
    /\ defaults = Null
    /\ req = [r \in 1..MaxConc |-> IdleReq]
    /\ wishlist = <<>>
    /\ ev = Ev("init", 0, "none", NoResp, FALSE, NoMsg, NoOut, {})

ConcNext ==
    \/ \E r \in 1..MaxConc, kind \in {"analyzeImage", "searchProducts"} : Issue(r, kind)
    \/ \E r \in 1..MaxConc, resp \in AllResponses : Respond(r, resp)
    \/ \E r \in 1..MaxConc, resp \in AllResponses : RefreshRespond(r, resp)

ConcSpec == ConcInit /\ [][ConcNext]_vars

\* ---------------------------------- the auth slice and utils/storage alone
\* The reducers of the auth slice and the helpers of utils/storage, called in
\* any order with any payload on any content of the two credential keys.

\* payload.token and payload.user of setCredentials
TokenPayloads == Tokens \cup {"", Undefined}
UserPayloads == Users \cup {Null, Undefined}

\* what the two keys can hold: absent, what saveAuthData writes, a string that
\* is not JSON
StoredTokens == Tokens \cup {Null, "undefined"}
StoredUsers == {JSONstringify(u) : u \in Users} \cup {Null, "undefined", "{"}

\* the call made, its arguments, what it returned and what it found
AuthEv(op, token, user, ret) ==
    [op |-> op, token |-> token, user |-> user, ret |-> ret,
     auth0 |-> auth, ls0 |-> localStorage]

AuthInit ==
    /\ \E t \in StoredTokens, u \in StoredUsers :
          localStorage = [k \in Keys |-> IF k = TOKEN_KEY THEN t
                                         ELSE IF k = USER_KEY THEN u ELSE Null]
    /\ auth = initialState
    /\ defaults = Null
    /\ req = [r \in Reqs |-> IdleReq]
    /\ wishlist = <<>>
    /\ ev = [op |-> "init", token |-> Null, user |-> Null, ret |-> NoStoredAuth,
             auth0 |-> initialState, ls0 |-> localStorage]

DoSetCredentials(user, token) ==
    /\ auth' = setCredentials(user, token)
    /\ ev' = AuthEv("setCredentials", token, user, NoStoredAuth)
    /\ UNCHANGED <<localStorage, defaults, req, wishlist>>

DoLogout ==
    /\ localStorage' = logout(localStorage).ls
    /\ auth' = logout(localStorage).auth
    /\ ev' = AuthEv("logout", Null, Null, NoStoredAuth)
    /\ UNCHANGED <<defaults, req, wishlist>>

DoSaveAuthData(token, user) ==
    /\ localStorage' = saveAuthData(localStorage, token, user)
    /\ ev' = AuthEv("saveAuthData", token, user, NoStoredAuth)
    /\ UNCHANGED <<auth, defaults, req, wishlist>>

DoClearAuthData ==
    /\ localStorage' = clearAuthData(localStorage)
    /\ ev' = AuthEv("clearAuthData", Null, Null, NoStoredAuth)
    /\ UNCHANGED <<auth, defaults, req, wishlist>>

DoGetStoredAuth ==
    /\ localStorage' = getStoredAuth(localStorage).ls
    /\ ev' = AuthEv("getStoredAuth", Null, Null, getStoredAuth(localStorage).ret)
    /\ UNCHANGED <<auth, defaults, req, wishlist>>

AuthNext ==
    \/ \E user \in UserPayloads, token \in TokenPayloads : DoSetCredentials(user, token)
    \/ DoLogout
    \/ \E token \in Tokens \cup {Undefined}, user \in Users \cup {Undefined} :
          DoSaveAuthData(token, user)
    \/ DoClearAuthData
    \/ DoGetStoredAuth

AuthSpec == AuthInit /\ [][AuthNext]_vars

\* ------------------------------------------------ the wishlist slice alone
\* The reducers of the wishlist slice dispatched in any order: setWishlist
\* with a list of the backend, addToWishlist with any product, removeFromWishlist
\* with any id, clearWishlist.

\* action.payload of addToWishlist: a product of any id with any content
AnyProducts == {Product(id, t) : id \in ProductIds, t \in Titles}

\* the reducer dispatched, its payload and the items it found
WishlistEv(op, product, id) ==
    [op |-> op, product |-> product, id |-> id, mirror |-> wishlist]

WishlistInit ==
    /\ wishlist = <<>>
    /\ localStorage = [k \in Keys |-> Null]
    /\ auth = initialState
    /\ defaults = Null
    /\ req = [r \in Reqs |-> IdleReq]
    /\ ev = [op |-> "init", product |-> NoProduct, id |-> "", mirror |-> <<>>]

DoSetWishlist(list) ==
    /\ wishlist' = setWishlist(wishlist, list)
    /\ ev' = WishlistEv("setWishlist", NoProduct, "")
    /\ UNCHANGED <<localStorage, auth, defaults, req>>

DoAddToWishlist(product) ==
    /\ wishlist' = addToWishlistAction(wishlist, product)
    /\ ev' = WishlistEv("addToWishlist", product, product.id)
    /\ UNCHANGED <<localStorage, auth, defaults, req>>

DoRemoveFromWishlist(id) ==
    /\ wishlist' = removeFromWishlistAction(wishlist, id)
    /\ ev' = WishlistEv("removeFromWishlist", NoProduct, id)
    /\ UNCHANGED <<localStorage, auth, defaults, req>>

DoClearWishlist ==
    /\ wishlist' = clearWishlist(wishlist)
    /\ ev' = WishlistEv("clearWishlist", NoProduct, "")
    /\ UNCHANGED <<localStorage, auth, defaults, req>>

WishlistNext ==
    \/ \E list \in Wishlists : DoSetWishlist(list)
    \/ \E product \in AnyProducts : DoAddToWishlist(product)
    \/ \E id \in ProductIds : DoRemoveFromWishlist(id)
    \/ DoClearWishlist

WishlistSpec == WishlistInit /\ [][WishlistNext]_vars

\* ------------------------------------------------------------ claims
\* In the claims ev is the step that led to the state: ev.resp the response it
\* handled, ev.retried whether the request had been re-issued before, ev.msg
\* the message it put on the wire and ev.out what it handed to the caller.

\* C1: a request makes the interceptor call the refresh endpoint at most once
\* and is re-issued at most once; a 401 on the re-issued request is rejected to
\* the caller with no second refresh and no second retry.
C1_OneRefreshOneRetry ==
    /\ \A r \in DOMAIN req : req[r].nRefresh <= 1 /\ req[r].nSend <= 2
    /\ (ev.op = "respond" /\ ev.retried /\ ev.resp.status = 401) =>
          /\ ev.out.result = "reject" /\ ev.out.status = 401
          /\ ev.out.reason = "response"
          /\ ev.msg = NoMsg
          /\ req[ev.r] = IdleReq

C1_Witness == ev.op = "respond" /\ ev.retried /\ ev.resp.status = 401

\* C2: on a first 401 with a refresh token stored the request is marked retried
\* and the refresh call is sent; when the exchange succeeds with token T, T
\* is the stored access token, the original request is sent again with header
\* "Bearer T", and the caller receives the result of that request, whatever
\* it is.
C2_RefreshThenRetryInOrder ==
    /\ \A r \in DOMAIN req :
          req[r].pc = "refreshing" =>
             req[r].retry /\ req[r].nRefresh = 1 /\ req[r].nSend = 1
    /\ (ev.op = "respond" /\ ev.resp.status = 401 /\ ~ev.retried
            /\ localStorage[REFRESH_KEY] # Null) =>
          /\ ev.msg.via = "axios" /\ ev.msg.path = "/refresh"
          /\ req[ev.r].pc = "refreshing"
          /\ ev.out = NoOut
    /\ ev.op = "refreshed" =>
          /\ localStorage[TOKEN_KEY] = ev.resp.access_token
          /\ ev.msg.via = "api" /\ ev.msg.path = Path(ev.kind)
          /\ ev.msg.auth = "Bearer " \o ev.resp.access_token
          /\ req[ev.r].pc = "sent" /\ req[ev.r].retry
          /\ req[ev.r].nRefresh = 1 /\ req[ev.r].nSend = 2
          /\ ev.out = NoOut
    /\ (ev.op = "respond" /\ ev.retried) =>
          /\ ev.out.result = (IF ev.resp.status = 200 THEN "resolve" ELSE "reject")
          /\ ev.out.status = ev.resp.status
          /\ ev.out.reason = "response"
          /\ ev.msg = NoMsg

C2_Witness ==
    ev.op = "respond" /\ ev.retried /\ ev.resp.status = 200 /\ ev.kind = "getWishlist"

\* C3: when the refresh exchange fails the original request is not sent again,
\* state.auth is {user: null, token: null, isAuthenticated: false} and
\* getStoredAuth() returns null.
C3_RefreshFailureClearsSession ==
    ev.op = "refreshFailed" =>
       /\ ev.msg = NoMsg
       /\ req[ev.r] = IdleReq
       /\ auth = [user |-> Null, token |-> Null, isAuthenticated |-> FALSE]
       /\ ~getStoredAuth(localStorage).ret.found

C3_Witness == ev.op = "refreshFailed" /\ ev.kind = "getWishlist"

\* C4: on a first 401 with no refresh token stored nothing is sent, neither to
\* the refresh endpoint nor again to the original one, and the session is
\* cleared: state.auth reset, stored token and user removed.
C4_NoRefreshTokenNoRefreshCall ==
    (ev.op = "respond" /\ ev.resp.status = 401 /\ ~ev.retried
        /\ localStorage[REFRESH_KEY] = Null) =>
       /\ ev.msg = NoMsg
       /\ req[ev.r] = IdleReq
       /\ auth = [user |-> Null, token |-> Null, isAuthenticated |-> FALSE]
       /\ localStorage[TOKEN_KEY] = Null /\ localStorage[USER_KEY] = Null

C4_Witness ==
    /\ ev.op = "respond" /\ ev.resp.status = 401 /\ ~ev.retried
    /\ localStorage[REFRESH_KEY] = Null /\ ev.kind = "getWishlist"

\* What the caller of a domain operation can see of a failure: the Error
\* thrown and its message.
Seen(out) == [result |-> out.result, message |-> out.message]

\* the failures a transport failure without forced logout delivers
OrdinaryFailures == {RejectError(k, f) : k \in DOMAIN Responses, f \in Failures}

C6_NoTokenNoHeader ==
    (ev.msg.via = "api" /\ ev.msg.token = Null) => ev.msg.auth = Null

\* C7: a request sent through api while access token t is stored carries
\* Authorization "Bearer t", first attempts and retries alike.
C7_BearerOfStoredToken ==
    (ev.msg.via = "api" /\ ev.msg.token # Null) =>
       ev.msg.auth = "Bearer " \o ev.msg.token

C7_Witness == ev.op = "refreshed" /\ ev.msg.via = "api" /\ ev.msg.token # Null

\* C8: every call to the refresh endpoint carries the stored refresh token as
\* bearer credential and an empty body.
C8_RefreshCarriesRefreshToken ==
    ev.msg.path = "/refresh" =>
       ev.msg.auth = "Bearer " \o ev.msg.refresh /\ ev.msg.body = "{}"

\* C9: a failure response from the refresh endpoint causes no further call to
\* the refresh endpoint and the refresh request is not sent again.
C9_RefreshFailureTerminal ==
    /\ (ev.op = "respond" /\ ev.kind = "refresh" /\ ev.resp.status # 200) =>
          ev.msg = NoMsg /\ req[ev.r].pc = "idle"
    /\ ev.op = "refreshFailed" => ev.msg = NoMsg /\ req[ev.r].pc = "idle"
    /\ ev.op = "refreshed" => ev.kind # "refresh"

\* C10: after any logout localStorage holds no access token, no serialized
\* user and no refresh token.
C10_LogoutEmptiesStore ==
    ev.logout # {} => \A k \in Keys : localStorage[k] = Null

\* C11 (AuthSpec): state.auth.isAuthenticated is true exactly when
\* state.auth.token is a non-empty string; setCredentials replaces user and
\* token together by its payload, logout resets both, and nothing else
\* touches state.auth.
C11_AuthenticatedIffToken ==
    /\ auth.isAuthenticated <=> auth.token \notin {Null, Undefined, ""}
    /\ ev.op = "setCredentials" => auth.user = ev.user /\ auth.token = ev.token
    /\ ev.op = "logout" => auth.user = Null /\ auth.token = Null
    /\ ev.op \notin {"setCredentials", "logout"} => auth = ev.auth0

C11_Witness ==
    /\ ev.op = "setCredentials" /\ ev.token = "" /\ ev.user \in Users
    /\ ev.auth0.isAuthenticated /\ ev.auth0.user # ev.user

\* C12 (AuthSpec): logout dispatched in any state leaves no token and no user
\* in localStorage and state.auth = {user: null, token: null, isAuthenticated:
\* false}; dispatched on a state it has produced, it changes nothing.
C12_LogoutResetsAndIsIdempotent ==
    ev.op = "logout" =>
       /\ localStorage[TOKEN_KEY] = Null /\ localStorage[USER_KEY] = Null
       /\ auth = [user |-> Null, token |-> Null, isAuthenticated |-> FALSE]
       /\ logout(localStorage).ls = localStorage
       /\ logout(localStorage).auth = auth
       /\ (ev.auth0 = initialState /\ ev.ls0[TOKEN_KEY] = Null /\ ev.ls0[USER_KEY] = Null)
             => localStorage = ev.ls0 /\ auth = ev.auth0

C12_Witness ==
    /\ ev.op = "logout" /\ ev.auth0.isAuthenticated /\ ev.auth0.user \in Users
    /\ ev.ls0[TOKEN_KEY] \in Tokens /\ ev.ls0[USER_KEY] # Null

\* C13: in every reachable state the 'token' key is present in localStorage
\* exactly when the 'auth_user' key is present.
C13_TokenIffUserStored ==
    (localStorage[TOKEN_KEY] # Null) <=> (localStorage[USER_KEY] # Null)

\* C14 (AuthSpec): right after saveAuthData(token, user) with a non-empty
\* token and a user object, getStoredAuth() returns that token and a user
\* equal to the one saved, and leaves the store as it is.
C14_SaveThenLoadRoundTrip ==
    (ev.op = "saveAuthData" /\ ev.token \notin {Null, Undefined, ""} /\ ev.user \in Users) =>
       /\ getStoredAuth(localStorage).ret =
             [found |-> TRUE, token |-> ev.token, user |-> ev.user]
       /\ getStoredAuth(localStorage).ls = localStorage

C14_Witness ==
    /\ ev.op = "saveAuthData" /\ ev.token \in Tokens /\ ev.user \in Users
    /\ ev.ls0[USER_KEY] = "{" /\ ev.ls0[TOKEN_KEY] \notin {Null, ev.token}

\* C15 (AuthSpec): getStoredAuth() on a store that holds a token and, under
\* the user key, a string that is not JSON returns null and leaves neither
\* token nor user; a second getStoredAuth() returns null as well.
C15_CorruptUserSelfHeals ==
    (ev.op = "getStoredAuth" /\ ev.ls0[TOKEN_KEY] # Null
        /\ ev.ls0[USER_KEY] \in {"undefined", "{"}) =>
       /\ ~ev.ret.found
       /\ localStorage[TOKEN_KEY] = Null /\ localStorage[USER_KEY] = Null
       /\ ~getStoredAuth(localStorage).ret.found
       /\ getStoredAuth(localStorage).ls = localStorage

C15_Witness ==
    /\ ev.op = "getStoredAuth" /\ ev.ls0[TOKEN_KEY] \in Tokens
    /\ ev.ls0[USER_KEY] = "{" /\ ~ev.ret.found

\* C16 (AuthSpec): whenever getStoredAuth() returns null, a token stored
\* without a user and a user stored without a token included, it leaves
\* neither token nor user in localStorage.
C16_NullLeavesStoreCleared ==
    (ev.op = "getStoredAuth" /\ ~ev.ret.found) =>
       localStorage[TOKEN_KEY] = Null /\ localStorage[USER_KEY] = Null

\* C17: a login or signup request writes neither localStorage nor state.auth
\* before it settles; when login resolves, the form leaves state.auth
\* authenticated with the user and token returned and the same token and user
\* stored; when login fails, state.auth and localStorage are as the failure
\* found them.
C17_LoginWritesThroughFormOnly ==
    /\ (ev.kind \in {"login", "signup"} /\ ev.out = NoOut) =>
          auth = ev.auth0 /\ localStorage = ev.ls0
    /\ (ev.kind = "login" /\ ev.out.result = "resolve") =>
          /\ auth = [user |-> ev.resp.user, token |-> ev.resp.access_token,
                     isAuthenticated |-> TRUE]
          /\ getStoredAuth(localStorage).ret =
                [found |-> TRUE, token |-> ev.resp.access_token, user |-> ev.resp.user]
    /\ (ev.kind = "login" /\ ev.out.result = "reject") =>
          auth = ev.auth0 /\ localStorage = ev.ls0

\* C18 (WishlistSpec): addToWishlist with a product whose id is already in
\* the items leaves the items as they were, whatever the other fields of the
\* product; hence after any addToWishlist, dispatching it again with the
\* same product changes nothing.
C18_AddExistingIdIsNoOp ==
    ev.op = "addToWishlist" =>
       /\ (\E i \in DOMAIN ev.mirror : ev.mirror[i].id = ev.product.id)
             => wishlist = ev.mirror
       /\ addToWishlistAction(wishlist, ev.product) = wishlist

C18_Witness ==
    /\ ev.op = "addToWishlist" /\ Len(ev.mirror) = 2
    /\ ev.mirror[2].id = ev.product.id /\ ev.mirror[2].title # ev.product.title
    /\ ev.mirror[1].id # ev.product.id

\* C19: in every reachable state no two items of state.wishlist.items have
\* the same id.
C19_NoDuplicateIds ==
    \A i, j \in DOMAIN wishlist : i # j => wishlist[i].id # wishlist[j].id

\* C20: no step of an add or a remove changes state.wishlist.items except
\* the one in which the backend call resolves, which dispatches the reducer;
\* when the call is rejected, after a refresh and retry or not, the items
\* are as the failure found them.
C20_MirrorChangesOnlyOnSuccess ==
    /\ (ev.kind \in {"addToWishlist", "removeFromWishlist"} /\ ev.out.result # "resolve")
          => wishlist = ev.mirror
    /\ (ev.kind = "addToWishlist" /\ ev.out.result = "resolve") =>
          /\ ev.resp.status = 200
          /\ wishlist = (IF \E i \in DOMAIN ev.mirror : ev.mirror[i].id = ev.product.id
                         THEN ev.mirror ELSE Append(ev.mirror, ev.product))
    /\ (ev.kind = "removeFromWishlist" /\ ev.out.result = "resolve") =>
          /\ ev.resp.status = 200
          /\ wishlist = SelectSeq(ev.mirror, LAMBDA x : x.id # ev.product.id)

C20_Witness ==
    /\ ev.kind = "addToWishlist" /\ ev.retried /\ ev.out.result = "reject"
    /\ ev.mirror # <<>> /\ ev.product \in Products

\* C21: removeFromWishlist called with an empty product id throws
\* 'Invalid productId.' and sends nothing; localStorage, state.auth and
\* state.wishlist.items stay as they were, and no remove request with an
\* empty id is ever in flight.
C21_EmptyIdRejectedBeforeSending ==
    /\ (ev.op \in {"handleWishlistAction", "handleRemoveItem"}
            /\ ev.kind = "removeFromWishlist" /\ ev.product.id = "") =>
          /\ ev.out.result = "reject" /\ ev.out.message = "Invalid productId."
          /\ ev.msg = NoMsg
          /\ req[ev.r].pc = "idle"
          /\ localStorage = ev.ls0 /\ auth = ev.auth0 /\ wishlist = ev.mirror
    /\ \A r \in DOMAIN req :
          req[r].kind = "removeFromWishlist" => req[r].product.id # ""

C21_Witness ==
    /\ ev.op = "handleRemoveItem" /\ ev.product.id = ""
    /\ ev.out.result = "reject" /\ Len(wishlist) = 2

SessionClearedUnasked ==
    /\ ev.op \notin {"init", "handleLogout"}
    /\ \/ ev.auth0 # initialState /\ auth = initialState
       \/ ev.ls0[TOKEN_KEY] # Null /\ localStorage[TOKEN_KEY] = Null
       \/ ev.ls0[USER_KEY] # Null /\ localStorage[USER_KEY] = Null

\* the 401 handling of the response interceptor
InterceptorHandled401 ==
    \/ ev.op = "respond" /\ ev.resp.status = 401 /\ ~ev.retried
    \/ ev.op = "refreshFailed"

\* C23 as stated: the session is cleared without a user action only by the
\* 401 handling of the response interceptor.
C23_OnlyInterceptorForcesLogout ==
    SessionClearedUnasked => InterceptorHandled401

\* C23 as amended: the session is cleared without a user action by the 401
\* handling of the response interceptor and by the periodic refresh of
\* useAuth, which forces a logout whenever its refreshAccessToken() fails;
\* by nothing else.
C23_InterceptorOrTimerForcesLogout ==
    /\ SessionClearedUnasked =>
          \/ InterceptorHandled401
          \/ ev.kind = "refresh" /\ ev.out.result = "reject"
    /\ (ev.kind = "refresh" /\ ev.out.result = "reject") =>
          /\ auth = [user |-> Null, token |-> Null, isAuthenticated |-> FALSE]
          /\ localStorage[TOKEN_KEY] = Null /\ localStorage[USER_KEY] = Null

C23_Witness ==
    /\ ev.op = "respond" /\ ev.kind = "refresh" /\ ev.resp.status = 500
    /\ ev.auth0.isAuthenticated /\ ~auth.isAuthenticated

\* C24: after the interceptor's refresh succeeded with token T, state.auth.token
\* is T, the token localStorage holds.
C24_RefreshUpdatesSessionToken ==
    ev.op = "refreshed" =>
       auth.token = ev.resp.access_token /\ auth.token = localStorage[TOKEN_KEY]

\* C25 (ConcSpec): with several requests in flight, the retry that follows a
\* successful refresh leaves with the token that refresh has just written,
\* which is the token stored at that moment; nothing but a refresh exchange
\* writes the token, so once all have finished the stored token is the one
\* of the refresh that completed last.
C25_RetryCarriesNewestToken ==
    /\ ev.op = "refreshed" =>
          /\ localStorage[TOKEN_KEY] = ev.resp.access_token
          /\ ev.msg.token = localStorage[TOKEN_KEY]
          /\ ev.msg.auth = "Bearer " \o localStorage[TOKEN_KEY]
    /\ ev.op \notin {"init", "refreshed", "refreshFailed"} =>
          localStorage[TOKEN_KEY] = ev.ls0[TOKEN_KEY]

C25_Witness ==
    /\ ev.op = "refreshed" /\ ev.ls0[TOKEN_KEY] # ev.resp.access_token
    /\ ev.ls0[TOKEN_KEY] # ev.auth0.token
    /\ \E o \in DOMAIN req : o # ev.r /\ req[o].pc = "sent" /\ req[o].retry

\* C26 (ConcSpec): every request that gets a first 401 while a refresh token
\* is stored starts its own refresh exchange, whatever the other requests are
\* doing; a request has made one call to the refresh endpoint if it got a
\* first 401 and none otherwise.
C26_OneRefreshPerRequest ==
    /\ (ev.op = "respond" /\ ev.resp.status = 401 /\ ~ev.retried) =>
          /\ ev.msg.via = "axios" /\ ev.msg.path = "/refresh"
          /\ req[ev.r].pc = "refreshing"
    /\ \A r \in DOMAIN req :
          /\ req[r].nRefresh = (IF req[r].retry THEN 1 ELSE 0)
          /\ req[r].pc = "refreshing" => req[r].retry
    /\ ev.op = "refreshed" => ev.msg.path = Path(ev.kind) /\ req[ev.r].pc = "sent"

C26_Witness ==
    /\ ev.op = "respond" /\ ev.resp.status = 401 /\ ~ev.retried
    /\ \A r \in DOMAIN req : req[r].pc = "refreshing" /\ req[r].nRefresh = 1

\* C27: a response that is not a first 401 (a success, another status, a
\* network error, a 401 on a request already retried) goes to the caller as
\* it is: no refresh call, no retry, no logout by the interceptor; state.auth
\* and localStorage change only by what the caller does with the outcome
\* (the form after a successful login or signup, the useAuth hook).
C27_OtherOutcomesPassThrough ==
    (ev.op = "respond" /\ (ev.resp.status # 401 \/ ev.retried)) =>
       /\ ev.msg = NoMsg
       /\ req[ev.r].pc = "idle" /\ req[ev.r].nRefresh = 0 /\ req[ev.r].nSend = 0
       /\ ev.out.result = (IF ev.resp.status = 200 THEN "resolve" ELSE "reject")
       /\ ev.out.status = ev.resp.status /\ ev.out.reason = "response"
       /\ "interceptor" \notin ev.logout
       /\ (ev.kind \notin {"login", "signup", "refresh"} \/
              (ev.kind \in {"login", "signup"} /\ ev.out.result = "reject"))
             => localStorage = ev.ls0 /\ auth = ev.auth0

C27_Witness ==
    /\ ev.op = "respond" /\ ev.resp.status = 0 /\ ~ev.retried
    /\ ev.kind = "getWishlist" /\ ev.ls0[REFRESH_KEY] # Null /\ ev.auth0.isAuthenticated

\* C28 (EmptySpec): from an empty localStorage the refresh_token key is
\* never written; so nothing is ever sent to the refresh endpoint and no
\* request waits for a refresh, every first 401 ends in the interceptor's
\* forced logout, and every tick of the refresh timer in an authenticated
\* session fails and forces a logout.
C28_RefreshTokenNeverStored ==
    /\ localStorage[REFRESH_KEY] = Null
    /\ ev.msg.path # "/refresh"
    /\ \A r \in DOMAIN req : req[r].pc # "refreshing" /\ req[r].kind # "refresh"
    /\ (ev.op = "respond" /\ ev.resp.status = 401 /\ ~ev.retried) =>
          /\ "interceptor" \in ev.logout /\ ev.msg = NoMsg
          /\ ev.out.result = "reject"
          /\ auth = [user |-> Null, token |-> Null, isAuthenticated |-> FALSE]
          /\ localStorage[TOKEN_KEY] = Null /\ localStorage[USER_KEY] = Null
    /\ ev.op = "tick" =>
          /\ ev.auth0.isAuthenticated
          /\ "timer" \in ev.logout /\ ev.msg = NoMsg
          /\ ev.out.result = "reject"
          /\ auth = [user |-> Null, token |-> Null, isAuthenticated |-> FALSE]
          /\ localStorage[TOKEN_KEY] = Null /\ localStorage[USER_KEY] = Null

C28_Witness ==
    /\ ev.op = "tick" /\ ev.auth0.user \in Users /\ ev.ls0[TOKEN_KEY] \in Tokens
    /\ wishlist # <<>>

\* C29: in every reachable state state.auth is authenticated if and only if
\* an access token is stored in localStorage; in particular no access token
\* is stored while state.auth is logged out.
C29_AuthenticatedIffTokenStored ==
    auth.isAuthenticated <=> (localStorage[TOKEN_KEY] # Null)

\* C30: after any logout, from the header, by the 401 interceptor or by the
\* periodic refresh, state.wishlist.items is empty.
C30_LogoutEmptiesMirror ==
    ev.logout # {} => wishlist = <<>>

====
